---- MODULE Spec2Model ----
(***************************************************************************)
(* Model of the kernel-apps browser automation actions:                    *)
(*   github        provision-browser, unwatch                              *)
(*   venmo         provision-browser, pay-user                             *)
(*   google-search search (perform_search)                                 *)
(* and of the login poller wait_for_login.                                 *)
(*                                                                         *)
(* Strings are sequences of tokens.  A token is one character ("a", " ",   *)
(* "[") or a literal piece of text that the code writes as a whole         *)
(* ("https://", "github-", "Paid ").  Concatenation, strip, startswith and *)
(* comparison work on these sequences as they do on Python strings.        *)
(***************************************************************************)
EXTENDS Integers, Sequences, FiniteSets, TLC

\* ------------------------------------------------------------------ bounds
MaxLen == 2            \* longest input string, in tokens
MaxInvocations == 2    \* invocations in one behaviour
MaxElems == 2          \* most result elements query_selector_all returns
Resolution == 2        \* clock ticks per time unit (1 time unit = 1000 ms)
MaxTimeout == 5        \* largest timeout argument of wait_for_login, in ticks
MaxPoll == 3           \* largest poll_interval argument, in ticks

\* ------------------------------------------------------- program constants
ProbeTimeoutMs == 1000 \* wait_for(timeout=1000) in is_logged_in
ProbeTicks == (ProbeTimeoutMs * Resolution) \div 1000

\* ----------------------------------------------------------------- strings
Alphabet == {"a", " "}
UrlAlphabet == {"a", " ", "https://", "["}

SeqsUpTo(S, n) == UNION {[1..k -> S] : k \in 0..n}

IsSpace(c) == c = " "

RECURSIVE LStrip(_)
LStrip(s) == IF s = <<>> THEN s
             ELSE IF IsSpace(Head(s)) THEN LStrip(Tail(s)) ELSE s

RECURSIVE RStrip(_)
RStrip(s) == IF s = <<>> THEN s
             ELSE IF IsSpace(s[Len(s)]) THEN RStrip(SubSeq(s, 1, Len(s) - 1)) ELSE s

\* str.strip()
Strip(s) == RStrip(LStrip(s))

\* ------------------------------------------------------------ input values
\* A field of the input mapping: absent, None, a non-string (falsy such as 0,
\* truthy such as 5) or a string.
Missing == [t |-> "missing", v |-> <<>>]
None == [t |-> "none", v |-> <<>>]
FalsyNonStr == [t |-> "falsy_nonstr", v |-> <<>>]
TruthyNonStr == [t |-> "truthy_nonstr", v |-> <<>>]
Str(s) == [t |-> "str", v |-> s]

NonStrValues == {Missing, None, FalsyNonStr, TruthyNonStr}
Values == NonStrValues \cup {Str(s) : s \in SeqsUpTo(Alphabet, MaxLen)}
ShortValues == NonStrValues \cup {Str(s) : s \in SeqsUpTo(Alphabet, MaxLen - 1)}
UrlValues == NonStrValues \cup {Str(s) : s \in SeqsUpTo(UrlAlphabet, MaxLen - 1)}

\* Python truthiness and isinstance(x, str)
Truthy(x) == x.t = "truthy_nonstr" \/ (x.t = "str" /\ x.v # <<>>)
IsStr(x) == x.t = "str"

\* input.get(field, default)
Get(inp, f, default) == IF inp[f].t = "missing" THEN default ELSE inp[f]

\* --------------------------------------------------------------- validators
\* A validator either raises ValueError or returns a string.
Raises == [ok |-> FALSE, v |-> <<>>]
Returns(s) == [ok |-> TRUE, v |-> s]

\* url.startswith(('http://', 'https://'))
StartsWithScheme(s) == s # <<>> /\ Head(s) \in {"http://", "https://"}

\* The network location of a URL that starts with a scheme token: what follows
\* the scheme, up to the next "/".
RECURSIVE UpToSlash(_)
UpToSlash(s) == IF s = <<>> THEN s
                ELSE IF Head(s) \in {"http://", "https://"} THEN <<>>
                ELSE <<Head(s)>> \o UpToSlash(Tail(s))

Netloc(u) == UpToSlash(Tail(u))

Contains(s, c) == \E i \in 1..Len(s) : s[i] = c

\* urlparse(url) raises ValueError ("Invalid IPv6 URL") when the network
\* location has one bracket without the other.
UrlparseRaises(u) == Contains(Netloc(u), "[") # Contains(Netloc(u), "]")

cleanup_url(url) ==
    IF ~Truthy(url) \/ ~IsStr(url) THEN Raises
    ELSE LET u == IF StartsWithScheme(url.v) THEN url.v ELSE <<"https://">> \o url.v
         IN IF UrlparseRaises(u) THEN Raises ELSE Returns(u)

cleanup_username(username_in) ==
    IF ~Truthy(username_in) \/ ~IsStr(username_in) \/ ~Truthy(Str(Strip(username_in.v)))
    THEN Raises
    ELSE Returns(Strip(username_in.v))

cleanup_str(s) ==
    IF ~Truthy(s) \/ ~IsStr(s) \/ ~Truthy(Str(Strip(s.v)))
    THEN Raises
    ELSE Returns(Strip(s.v))

cleanup_search_query(q) ==
    IF ~Truthy(q) \/ ~IsStr(q) THEN Raises
    ELSE Returns(Strip(q.v))

\* ------------------------------------------------------------ session keys
\* Variant: the key leaves the username out.
github_persistent_browser_id_NoUser(u) == <<"github-">>

github_persistent_browser_id(u) == <<"github-">> \o u
venmo_persistent_browser_id == <<"venmo">>
google_persistent_browser_id == <<"google">>

\* ------------------------------------------------------------------- state
VARIABLES
    action,          \* the action invoked
    input,           \* its input mapping
    invocation,      \* number of this invocation in the behaviour
    env_logged_in,   \* the persisted session is logged in to the site
    env_has_unwatch, \* the repository page has an element labeled "Unwatch"
    pc,              \* position in the handler
    username, url, amount, note, query,   \* validated locals
    kernel_browser,  \* the session client.browsers.create returned
    sessions,        \* every persistence key passed to client.browsers.create
    browser,         \* "none", "connected", "closed" (browser.close was called)
    contexts,        \* len(browser.contexts)
    pages,           \* len(context.pages)
    page,            \* "unset", "coroutine" (get_page not awaited), "page"
    page_url,        \* page.url
    logged_in,       \* local of provision_browser
    interactions,    \* clicks and fills performed, in order
    elements,        \* texts of the located result elements, in DOM order
    completed,       \* indices of the text_content reads, in completion order
    pending,         \* what leaves the try block, delivered after finally
    result,          \* how the invocation ended
    \* wait_for_login
    timeout, poll_interval, clock, start_time, first_check, indicator,
    entry_indicator, absent_throughout, events, wl_pc, wl_ret

invVars == <<action, input, invocation, env_logged_in, env_has_unwatch>>
localVars == <<username, url, amount, note, query>>
gatherVars == <<elements, completed>>
loginVars == <<timeout, poll_interval, clock, start_time, first_check, indicator,
               entry_indicator, absent_throughout, events, wl_pc, wl_ret>>
handlerVars == <<pc, localVars, kernel_browser, sessions, browser, contexts, pages,
                 page, page_url, logged_in, interactions, gatherVars, pending, result>>
vars == <<invVars, handlerVars, loginVars>>

\* ------------------------------------------------------------------ results
NoResult == [kind |-> "none", success |-> FALSE, message |-> <<>>, results |-> <<>>, error |-> ""]
Returned(s, m) == [kind |-> "return", success |-> s, message |-> m, results |-> <<>>, error |-> ""]
ReturnedResults(r) == [kind |-> "return", success |-> TRUE, message |-> <<>>, results |-> r, error |-> ""]
Raised(e) == [kind |-> "raise", success |-> FALSE, message |-> <<>>, results |-> <<>>, error |-> e]

NoSession == [created |-> FALSE, persistence_id |-> <<>>]

\* ------------------------------------------------------------- invocations
NoInput == [username |-> Missing, url |-> Missing, amount |-> Missing,
            note |-> Missing, query |-> Missing]

InputsOf(a) ==
    CASE a = "gh_provision" -> {[NoInput EXCEPT !.username = u] : u \in Values}
      [] a = "gh_unwatch" ->
            {[NoInput EXCEPT !.username = u, !.url = l] : u \in Values, l \in UrlValues}
      [] a = "venmo_provision" -> {NoInput}
      [] a = "venmo_pay" ->
            {[NoInput EXCEPT !.username = u, !.amount = m, !.note = n] :
                u \in Values, m \in ShortValues, n \in ShortValues}
      [] a = "google_search" -> {[NoInput EXCEPT !.query = q] : q \in ShortValues}

Actions == {"gh_provision", "gh_unwatch", "venmo_provision", "venmo_pay", "google_search"}

\* The state of the login poller before any call of it.
LoginIdle ==
    /\ timeout = 0 /\ poll_interval = 0 /\ clock = 0 /\ start_time = 0
    /\ first_check = TRUE /\ indicator = FALSE /\ entry_indicator = FALSE
    /\ absent_throughout = TRUE /\ events = <<>> /\ wl_pc = "idle" /\ wl_ret = FALSE

HandlerStart ==
    /\ pc = "start"
    /\ username = <<>> /\ url = <<>> /\ amount = <<>> /\ note = <<>> /\ query = <<>>
    /\ kernel_browser = NoSession
    /\ browser = "none" /\ contexts = 0 /\ pages = 0
    /\ page = "unset" /\ page_url = <<>>
    /\ logged_in = FALSE
    /\ interactions = <<>>
    /\ elements = <<>> /\ completed = <<>>
    /\ pending = NoResult /\ result = NoResult

\* Before the first invocation: no action is running and no session exists.
Init ==
    /\ action = "idle"
    /\ input = NoInput
    /\ invocation = 0
    /\ env_logged_in = FALSE
    /\ env_has_unwatch = FALSE
    /\ sessions = {}
    /\ HandlerStart
    /\ LoginIdle

\* The platform invokes an action with some input, against some state of the
\* persisted session and of the site.
Invoke ==
    /\ action = "idle"
    /\ invocation < MaxInvocations
    /\ invocation' = invocation + 1
    /\ action' \in Actions
    /\ input' \in InputsOf(action')
    /\ env_logged_in' \in (IF action' \in {"gh_provision", "gh_unwatch", "venmo_provision"}
                            THEN BOOLEAN ELSE {FALSE})
    /\ env_has_unwatch' \in (IF action' = "gh_unwatch" THEN BOOLEAN ELSE {FALSE})
    /\ UNCHANGED <<handlerVars, loginVars>>

\* ------------------------------------------------------------ shared steps
\* A statement outside any try block raises: the handler ends at once.
Fail(e) == result' = Raised(e) /\ pc' = "done" /\ pending' = pending

\* A statement inside the try block raises or returns: the finally block runs next.
Leave(r) == pending' = r /\ pc' = "finally" /\ result' = result

Goto(l) == pc' = l /\ pending' = pending /\ result' = result

\* client.browsers.create(persistence={"id": key})
Create(app, key) ==
    \/ /\ kernel_browser' = [created |-> TRUE, persistence_id |-> key]
       /\ sessions' = sessions \cup {[app |-> app, identity |-> username, key |-> key]}
       /\ Goto("connect")
    \/ /\ Fail("APIError")
       /\ UNCHANGED <<kernel_browser, sessions>>

\* browser = await playwright.chromium.connect_over_cdp(kernel_browser.cdp_ws_url)
ConnectOverCdp(next) ==
    \/ /\ browser' = "connected"
       /\ contexts' \in 0..1
       /\ pages' \in (IF contexts' = 0 THEN {0} ELSE 0..1)
       /\ Goto(next)
    \/ /\ Fail("Error")
       /\ UNCHANGED <<browser, contexts, pages>>

\* finally: await browser.close(); then what left the try block is delivered.
Finally(next) ==
    /\ pc = "finally"
    /\ browser' = "closed"
    /\ IF pending.kind = "none"
       THEN pc' = next /\ result' = result
       ELSE pc' = "done" /\ result' = pending
    /\ pending' = pending
\* is_logged_in(page): the indicator element is waited for; any error is False
is_logged_in == env_logged_in

\* ------------------------------------------- github provision-browser
GhProvisionValidate ==
    /\ action = "gh_provision" /\ pc = "start"
    /\ LET r == cleanup_username(Get(input, "username", Str(<<>>)))
       IN IF r.ok THEN username' = r.v /\ Goto("create")
                  ELSE username' = username /\ Fail("ValueError")
    /\ UNCHANGED <<invVars, loginVars, url, amount, note, query, kernel_browser, sessions,
                   browser, contexts, pages, page, page_url, logged_in, interactions, gatherVars>>

GhProvisionCreate ==
    /\ action = "gh_provision" /\ pc = "create"
    /\ Create("github", github_persistent_browser_id(username))
    /\ UNCHANGED <<invVars, loginVars, localVars, browser, contexts, pages, page, page_url,
                   logged_in, interactions, gatherVars>>

GhProvisionConnect ==
    /\ action = "gh_provision" /\ pc = "connect"
    /\ ConnectOverCdp("context")
    /\ UNCHANGED <<invVars, loginVars, localVars, kernel_browser, sessions, page, page_url,
                   logged_in, interactions, gatherVars>>

\* context = browser.contexts[0], before the try block
GhProvisionContext ==
    /\ action = "gh_provision" /\ pc = "context"
    /\ IF contexts = 0 THEN Fail("IndexError") ELSE Goto("page")
    /\ UNCHANGED <<invVars, loginVars, localVars, kernel_browser, sessions, browser, contexts,
                   pages, page, page_url, logged_in, interactions, gatherVars>>

\* page = context.pages[0], before the try block
GhProvisionPage ==
    /\ action = "gh_provision" /\ pc = "page"
    /\ IF pages = 0 THEN Fail("IndexError") /\ page' = page
                    ELSE Goto("goto") /\ page' = "page"
    /\ UNCHANGED <<invVars, loginVars, localVars, kernel_browser, sessions, browser, contexts,
                   pages, page_url, logged_in, interactions, gatherVars>>

GhProvisionGoto ==
    /\ action = "gh_provision" /\ pc = "goto"
    /\ \/ Goto("is_logged_in") /\ page_url' = <<"https://github.com/login">>
       \/ Leave(Raised("TimeoutError")) /\ page_url' = page_url
    /\ UNCHANGED <<invVars, loginVars, localVars, kernel_browser, sessions, browser, contexts,
                   pages, page, logged_in, interactions, gatherVars>>

GhProvisionIsLoggedIn ==
    /\ action = "gh_provision" /\ pc = "is_logged_in"
    /\ logged_in' = is_logged_in
    /\ Goto("finally")
    /\ UNCHANGED <<invVars, loginVars, localVars, kernel_browser, sessions, browser, contexts,
                   pages, page, page_url, interactions, gatherVars>>

GhProvisionFinally ==
    /\ action = "gh_provision"
    /\ Finally("return")
    /\ UNCHANGED <<invVars, loginVars, localVars, kernel_browser, sessions, contexts,
                   pages, page, page_url, logged_in, interactions, gatherVars>>

GhProvisionReturn ==
    /\ action = "gh_provision" /\ pc = "return"
    /\ result' = IF logged_in
                 THEN Returned(TRUE, <<"Provisioned browser for ">> \o username
                                      \o <<". It's already logged in">>)
                 ELSE Returned(TRUE, <<"Provisioned browser for ">> \o username
                                      \o <<". Please go log in here: ", "browser_live_view_url">>)
    /\ pc' = "done"
    /\ UNCHANGED <<invVars, loginVars, localVars, kernel_browser, sessions, browser, contexts,
                   pages, page, page_url, logged_in, interactions, gatherVars, pending>>

\* ---------------------------------------------------- github unwatch
\* Both validators run before the session is created.
GhUnwatchValidate ==
    /\ action = "gh_unwatch" /\ pc = "start"
    /\ LET ru == cleanup_url(Get(input, "url", None))
           rn == cleanup_username(Get(input, "username", Str(<<>>)))
       IN IF ~ru.ok THEN Fail("ValueError") /\ UNCHANGED <<url, username>>
          ELSE IF ~rn.ok THEN Fail("ValueError") /\ url' = ru.v /\ username' = username
          ELSE Goto("create") /\ url' = ru.v /\ username' = rn.v
    /\ UNCHANGED <<invVars, loginVars, amount, note, query, kernel_browser, sessions,
                   browser, contexts, pages, page, page_url, logged_in, interactions, gatherVars>>

GhUnwatchCreate ==
    /\ action = "gh_unwatch" /\ pc = "create"
    /\ Create("github", github_persistent_browser_id(username))
    /\ UNCHANGED <<invVars, loginVars, localVars, browser, contexts, pages, page, page_url,
                   logged_in, interactions, gatherVars>>

GhUnwatchConnect ==
    /\ action = "gh_unwatch" /\ pc = "connect"
    /\ ConnectOverCdp("get_page")
    /\ UNCHANGED <<invVars, loginVars, localVars, kernel_browser, sessions, page, page_url,
                   logged_in, interactions, gatherVars>>

\* page = get_page(browser): the coroutine is not awaited, so its body never
\* runs and page is bound to the coroutine object.
GhUnwatchGetPage ==
    /\ action = "gh_unwatch" /\ pc = "get_page"
    /\ page' = "coroutine"
    /\ Goto("goto")
    /\ UNCHANGED <<invVars, loginVars, localVars, kernel_browser, sessions, browser, contexts,
                   pages, page_url, logged_in, interactions, gatherVars>>

\* await page.goto(url), first statement of the try block: a coroutine object
\* has no attribute goto, so AttributeError is raised here and the rest of the
\* try block (wait_for_login, the second goto, the Unwatch click and the
\* confirmation click) is never reached.
GhUnwatchGoto ==
    /\ action = "gh_unwatch" /\ pc = "goto"
    /\ page = "coroutine"
    /\ Leave(Raised("AttributeError"))
    /\ UNCHANGED <<invVars, loginVars, localVars, kernel_browser, sessions, browser, contexts,
                   pages, page, page_url, logged_in, interactions, gatherVars>>

GhUnwatchFinally ==
    /\ action = "gh_unwatch"
    /\ Finally("done")
    /\ UNCHANGED <<invVars, loginVars, localVars, kernel_browser, sessions, contexts,
                   pages, page, page_url, logged_in, interactions, gatherVars>>
\* ------------------------------------------- venmo provision-browser
venmo_login_url == <<"https://id.venmo.com/signin">>

VenmoProvisionCreate ==
    /\ action = "venmo_provision" /\ pc = "start"
    /\ Create("venmo", venmo_persistent_browser_id)
    /\ UNCHANGED <<invVars, loginVars, localVars, browser, contexts, pages, page, page_url,
                   logged_in, interactions, gatherVars>>

VenmoProvisionConnect ==
    /\ action = "venmo_provision" /\ pc = "connect"
    /\ ConnectOverCdp("context")
    /\ UNCHANGED <<invVars, loginVars, localVars, kernel_browser, sessions, page, page_url,
                   logged_in, interactions, gatherVars>>

\* context = browser.contexts[0]; page = context.pages[0], before the try block
VenmoProvisionContextPage ==
    /\ action = "venmo_provision" /\ pc = "context"
    /\ IF contexts = 0 \/ pages = 0 THEN Fail("IndexError") /\ page' = page
                                     ELSE Goto("goto") /\ page' = "page"
    /\ UNCHANGED <<invVars, loginVars, localVars, kernel_browser, sessions, browser, contexts,
                   pages, page_url, logged_in, interactions, gatherVars>>

VenmoProvisionGoto ==
    /\ action = "venmo_provision" /\ pc = "goto"
    /\ \/ Goto("is_logged_in") /\ page_url' = venmo_login_url
       \/ Leave(Raised("TimeoutError")) /\ page_url' = page_url
    /\ UNCHANGED <<invVars, loginVars, localVars, kernel_browser, sessions, browser, contexts,
                   pages, page, logged_in, interactions, gatherVars>>

VenmoProvisionIsLoggedIn ==
    /\ action = "venmo_provision" /\ pc = "is_logged_in"
    /\ logged_in' = is_logged_in
    /\ Goto("finally")
    /\ UNCHANGED <<invVars, loginVars, localVars, kernel_browser, sessions, browser, contexts,
                   pages, page, page_url, interactions, gatherVars>>

VenmoProvisionFinally ==
    /\ action = "venmo_provision"
    /\ Finally("return")
    /\ UNCHANGED <<invVars, loginVars, localVars, kernel_browser, sessions, contexts,
                   pages, page, page_url, logged_in, interactions, gatherVars>>

VenmoProvisionReturn ==
    /\ action = "venmo_provision" /\ pc = "return"
    /\ result' = IF logged_in
                 THEN Returned(TRUE, <<"Provisioned browser. It's already logged in">>)
                 ELSE Returned(TRUE, <<"Provisioned browser. Please go log in here: ",
                                       "browser_live_view_url">>)
    /\ pc' = "done"
    /\ UNCHANGED <<invVars, loginVars, localVars, kernel_browser, sessions, browser, contexts,
                   pages, page, page_url, logged_in, interactions, gatherVars, pending>>

\* ------------------------------------------------------ venmo pay-user
ProfileUrl(u) == <<"https://account.venmo.com/u/">> \o u

\* Where the browser can end up after the navigation to a profile: some
\* user's profile page or the sign-in page.
LandingUrls == {ProfileUrl(u) : u \in {Strip(s) : s \in SeqsUpTo(Alphabet, MaxLen)} \ {<<>>}}
               \cup {venmo_login_url}

\* The three cleanup_str calls and the three "is required" tests, all before
\* the session is created.
VenmoPayValidate ==
    /\ action = "venmo_pay" /\ pc = "start"
    /\ LET ru == cleanup_str(Get(input, "username", Str(<<>>)))
           ra == cleanup_str(Get(input, "amount", Str(<<>>)))
           rn == cleanup_str(Get(input, "note", Str(<<>>)))
       IN IF ~ru.ok THEN Fail("ValueError") /\ UNCHANGED <<username, amount, note>>
          ELSE IF ~ra.ok
               THEN Fail("ValueError") /\ username' = ru.v /\ UNCHANGED <<amount, note>>
          ELSE IF ~rn.ok
               THEN Fail("ValueError") /\ username' = ru.v /\ amount' = ra.v /\ note' = note
          ELSE /\ username' = ru.v /\ amount' = ra.v /\ note' = rn.v
               /\ IF rn.v = <<>>
                  THEN result' = Returned(FALSE, <<"note is required">>)
                       /\ pc' = "done" /\ pending' = pending
                  ELSE IF ra.v = <<>>
                  THEN result' = Returned(FALSE, <<"amount is required">>)
                       /\ pc' = "done" /\ pending' = pending
                  ELSE IF ru.v = <<>>
                  THEN result' = Returned(FALSE, <<"username is required">>)
                       /\ pc' = "done" /\ pending' = pending
                  ELSE Goto("create")
    /\ UNCHANGED <<invVars, loginVars, url, query, kernel_browser, sessions,
                   browser, contexts, pages, page, page_url, logged_in, interactions, gatherVars>>

VenmoPayCreate ==
    /\ action = "venmo_pay" /\ pc = "create"
    /\ Create("venmo", venmo_persistent_browser_id)
    /\ UNCHANGED <<invVars, loginVars, localVars, browser, contexts, pages, page, page_url,
                   logged_in, interactions, gatherVars>>

VenmoPayConnect ==
    /\ action = "venmo_pay" /\ pc = "connect"
    /\ ConnectOverCdp("get_page")
    /\ UNCHANGED <<invVars, loginVars, localVars, kernel_browser, sessions, page, page_url,
                   logged_in, interactions, gatherVars>>

\* page = await get_page(browser), before the try block: raises when there is
\* no context, opens a page when the context has none.
VenmoPayGetPage ==
    /\ action = "venmo_pay" /\ pc = "get_page"
    /\ IF contexts = 0
       THEN Fail("Exception") /\ UNCHANGED <<page, pages>>
       ELSE IF pages = 0
       THEN \/ Goto("goto") /\ page' = "page" /\ pages' = 1
            \/ Fail("Error") /\ UNCHANGED <<page, pages>>
       ELSE Goto("goto") /\ page' = "page" /\ pages' = pages
    /\ UNCHANGED <<invVars, loginVars, localVars, kernel_browser, sessions, browser, contexts,
                   page_url, logged_in, interactions, gatherVars>>

\* await page.goto(profile); await page.wait_for_load_state("networkidle")
VenmoPayGoto ==
    /\ action = "venmo_pay" /\ pc = "goto"
    /\ \/ Goto("check_url") /\ page_url' \in LandingUrls
       \/ Leave(Raised("TimeoutError")) /\ page_url' = page_url
    /\ UNCHANGED <<invVars, loginVars, localVars, kernel_browser, sessions, browser, contexts,
                   pages, page, logged_in, interactions, gatherVars>>

\* Variant: the landing URL is not compared with the profile URL.
VenmoPayCheckUrl_NoCheck ==
    /\ action = "venmo_pay" /\ pc = "check_url"
    /\ Goto("click_pay")
    /\ UNCHANGED <<invVars, loginVars, localVars, kernel_browser, sessions, browser, contexts,
                   pages, page, page_url, logged_in, interactions, gatherVars>>

VenmoPayCheckUrl ==
    /\ action = "venmo_pay" /\ pc = "check_url"
    /\ IF page_url # ProfileUrl(username)
       THEN Leave(Returned(FALSE, <<"User ">> \o username
                     \o <<" not found or not logged in. Redirected to ">> \o page_url))
       ELSE Goto("click_pay")
    /\ UNCHANGED <<invVars, loginVars, localVars, kernel_browser, sessions, browser, contexts,
                   pages, page, page_url, logged_in, interactions, gatherVars>>

\* One click or fill inside the try block: it is performed, or it times out.
Interact(at, what, next) ==
    /\ action = "venmo_pay" /\ pc = at
    /\ \/ Goto(next) /\ interactions' = Append(interactions, what)
       \/ Leave(Raised("TimeoutError")) /\ interactions' = interactions
    /\ UNCHANGED <<invVars, loginVars, localVars, kernel_browser, sessions, browser, contexts,
                   pages, page, page_url, logged_in, gatherVars>>

VenmoPayClickPay == Interact("click_pay", <<"click", "profile_payRequestButton">>, "fill_amount")
VenmoPayFillAmount == Interact("fill_amount", <<"fill", "Amount">> \o amount, "fill_note")
VenmoPayFillNote == Interact("fill_note", <<"fill", "payment-note">> \o note, "click_submit")
VenmoPayClickSubmit == Interact("click_submit", <<"click", "pay_payRequestButton">>, "click_funding")
VenmoPayClickFunding ==
    Interact("click_funding", <<"click", "fundingInstrumentFactory_buttonGroup">>, "return")

VenmoPayReturn ==
    /\ action = "venmo_pay" /\ pc = "return"
    /\ Leave(Returned(TRUE, <<"Paid ">> \o username \o <<" ">> \o amount
                             \o <<" for ">> \o note))
    /\ UNCHANGED <<invVars, loginVars, localVars, kernel_browser, sessions, browser, contexts,
                   pages, page, page_url, logged_in, interactions, gatherVars>>

VenmoPayFinally ==
    /\ action = "venmo_pay"
    /\ Finally("done")
    /\ UNCHANGED <<invVars, loginVars, localVars, kernel_browser, sessions, contexts,
                   pages, page, page_url, logged_in, interactions, gatherVars>>
\* ------------------------------------------------------ google search
\* What element.text_content() can return: None or a string.
TextValues == {None, Str(<<>>), Str(<<"a">>), Str(<<" ">>)}

\* [text for text in texts if text]
RECURSIVE FilterTexts(_)
FilterTexts(texts) ==
    IF texts = <<>> THEN <<>>
    ELSE IF Truthy(Head(texts)) THEN <<Head(texts)>> \o FilterTexts(Tail(texts))
    ELSE FilterTexts(Tail(texts))

\* Variant: results listed in the order of completion.
Gather_CompletionOrder(values, completion_order) ==
    [k \in 1..Len(values) |-> values[completion_order[k]]]

\* asyncio.gather(*aws): the results are listed in the order of the awaitables,
\* not in the order in which they completed.
Gather(values, completion_order) == [i \in 1..Len(values) |-> values[i]]

\* Variant: the session is requested before the query is validated.
GoogleSearchValidate_CreateFirst ==
    /\ action = "google_search" /\ pc = "start"
    /\ kernel_browser' = [created |-> TRUE, persistence_id |-> google_persistent_browser_id]
    /\ sessions' = sessions \cup {[app |-> "google", identity |-> username,
                                    key |-> google_persistent_browser_id]}
    /\ LET r == cleanup_search_query(Get(input, "query", Str(<<>>)))
       IN IF r.ok THEN query' = r.v /\ Goto("connect")
                  ELSE query' = query /\ Fail("ValueError")
    /\ UNCHANGED <<invVars, loginVars, username, url, amount, note,
                   browser, contexts, pages, page, page_url, logged_in, interactions, gatherVars>>

GoogleSearchValidate ==
    /\ action = "google_search" /\ pc = "start"
    /\ LET r == cleanup_search_query(Get(input, "query", Str(<<>>)))
       IN IF r.ok THEN query' = r.v /\ Goto("create")
                  ELSE query' = query /\ Fail("ValueError")
    /\ UNCHANGED <<invVars, loginVars, username, url, amount, note, kernel_browser, sessions,
                   browser, contexts, pages, page, page_url, logged_in, interactions, gatherVars>>

GoogleSearchCreate ==
    /\ action = "google_search" /\ pc = "create"
    /\ Create("google", google_persistent_browser_id)
    /\ UNCHANGED <<invVars, loginVars, localVars, browser, contexts, pages, page, page_url,
                   logged_in, interactions, gatherVars>>

GoogleSearchConnect ==
    /\ action = "google_search" /\ pc = "connect"
    /\ ConnectOverCdp("get_page")
    /\ UNCHANGED <<invVars, loginVars, localVars, kernel_browser, sessions, page, page_url,
                   logged_in, interactions, gatherVars>>

\* page = await get_page(browser), inside the try block: a context and a page
\* are created when absent.
PerformSearchGetPage ==
    /\ action = "google_search" /\ pc = "get_page"
    /\ \/ Goto("probe") /\ page' = "page" /\ contexts' = 1 /\ pages' = 1
       \/ /\ contexts = 0 \/ pages = 0
          /\ Leave(Raised("Error")) /\ UNCHANGED <<page, contexts, pages>>
    /\ UNCHANGED <<invVars, loginVars, localVars, kernel_browser, sessions, browser,
                   page_url, logged_in, interactions, gatherVars>>

\* input_exists, url_contains_google; the navigation to the homepage when
\* either is false, and the second look for the search textarea.
PerformSearchNavigate ==
    /\ action = "google_search" /\ pc = "probe"
    /\ \E input_exists \in BOOLEAN, url_contains_google \in BOOLEAN :
          IF ~input_exists \/ ~url_contains_google
          THEN \/ Goto("fill") /\ page_url' = <<"https://www.google.com">>
               \/ Leave(Raised("TimeoutError")) /\ page_url' = page_url
               \/ Leave(Raised("Exception")) /\ page_url' = <<"https://www.google.com">>
          ELSE Goto("fill") /\ page_url' = <<"https://www.google.com">>
    /\ UNCHANGED <<invVars, loginVars, localVars, kernel_browser, sessions, browser, contexts,
                   pages, page, logged_in, interactions, gatherVars>>

\* page.fill(selector, query); page.keyboard.press("Enter")
PerformSearchSubmit ==
    /\ action = "google_search" /\ pc = "fill"
    /\ \/ Goto("wait") /\ interactions' = Append(interactions, <<"fill", "Search">> \o query)
       \/ Leave(Raised("TimeoutError")) /\ interactions' = interactions
    /\ UNCHANGED <<invVars, loginVars, localVars, kernel_browser, sessions, browser, contexts,
                   pages, page, page_url, logged_in, gatherVars>>

\* wait_for_load_state, wait_for_selector('div.g'), query_selector_all('div.g')
PerformSearchLocate ==
    /\ action = "google_search" /\ pc = "wait"
    /\ \/ Goto("gather") /\ elements' \in SeqsUpTo(TextValues, MaxElems)
       \/ Leave(Raised("TimeoutError")) /\ elements' = elements
    /\ UNCHANGED <<invVars, loginVars, localVars, kernel_browser, sessions, browser, contexts,
                   pages, page, page_url, logged_in, interactions, completed>>

\* One of the concurrent element.text_content() reads completes, or raises.
TextContent ==
    /\ action = "google_search" /\ pc = "gather"
    /\ \E i \in 1..Len(elements) :
          /\ \A k \in 1..Len(completed) : completed[k] # i
          /\ \/ Goto("gather") /\ completed' = Append(completed, i)
             \/ Leave(Raised("Error")) /\ completed' = completed
    /\ UNCHANGED <<invVars, loginVars, localVars, kernel_browser, sessions, browser, contexts,
                   pages, page, page_url, logged_in, interactions, elements>>

\* All reads are complete: perform_search returns the filtered texts and
\* search returns them from inside the try block.
PerformSearchReturn ==
    /\ action = "google_search" /\ pc = "gather"
    /\ Len(completed) = Len(elements)
    /\ Leave(ReturnedResults(FilterTexts(Gather(elements, completed))))
    /\ UNCHANGED <<invVars, loginVars, localVars, kernel_browser, sessions, browser, contexts,
                   pages, page, page_url, logged_in, interactions, gatherVars>>

GoogleSearchFinally ==
    /\ action = "google_search"
    /\ Finally("done")
    /\ UNCHANGED <<invVars, loginVars, localVars, kernel_browser, sessions, contexts,
                   pages, page, page_url, logged_in, interactions, gatherVars>>

\* ------------------------------------------------------ end of invocation
\* The handler has ended and its frame is discarded.  Only the provisioning
\* service's persisted sessions outlive an invocation.
Discard ==
    /\ action # "idle" /\ pc = "done"
    /\ action' = "idle" /\ input' = NoInput
    /\ env_logged_in' = FALSE /\ env_has_unwatch' = FALSE
    /\ pc' = "start"
    /\ username' = <<>> /\ url' = <<>> /\ amount' = <<>> /\ note' = <<>> /\ query' = <<>>
    /\ kernel_browser' = NoSession
    /\ browser' = "none" /\ contexts' = 0 /\ pages' = 0
    /\ page' = "unset" /\ page_url' = <<>>
    /\ logged_in' = FALSE
    /\ interactions' = <<>>
    /\ elements' = <<>> /\ completed' = <<>>
    /\ pending' = NoResult /\ result' = NoResult
    /\ UNCHANGED <<invocation, sessions, loginVars>>

Next ==
    \/ GhProvisionValidate \/ GhProvisionCreate \/ GhProvisionConnect
    \/ GhProvisionContext \/ GhProvisionPage \/ GhProvisionGoto
    \/ GhProvisionIsLoggedIn \/ GhProvisionFinally \/ GhProvisionReturn
    \/ GhUnwatchValidate \/ GhUnwatchCreate \/ GhUnwatchConnect
    \/ GhUnwatchGetPage \/ GhUnwatchGoto \/ GhUnwatchFinally
    \/ VenmoProvisionCreate \/ VenmoProvisionConnect \/ VenmoProvisionContextPage
    \/ VenmoProvisionGoto \/ VenmoProvisionIsLoggedIn \/ VenmoProvisionFinally
    \/ VenmoProvisionReturn
    \/ VenmoPayValidate \/ VenmoPayCreate \/ VenmoPayConnect \/ VenmoPayGetPage
    \/ VenmoPayGoto \/ VenmoPayCheckUrl \/ VenmoPayClickPay \/ VenmoPayFillAmount
    \/ VenmoPayFillNote \/ VenmoPayClickSubmit \/ VenmoPayClickFunding
    \/ VenmoPayReturn \/ VenmoPayFinally
    \/ GoogleSearchValidate \/ GoogleSearchCreate \/ GoogleSearchConnect
    \/ PerformSearchGetPage \/ PerformSearchNavigate \/ PerformSearchSubmit
    \/ PerformSearchLocate \/ TextContent \/ PerformSearchReturn \/ GoogleSearchFinally
    \/ Invoke \/ Discard

Spec == Init /\ [][Next]_vars
\* ------------------------------------------------------- wait_for_login
\* The poller is the same code in github and venmo.  No handler reaches a call
\* of it (github unwatch fails before its call; venmo pay-user has none), so
\* it is checked as a function of its arguments: timeout and poll_interval
\* in clock ticks, against a page whose login indicator the user may make
\* appear at any time.
InitLogin ==
    /\ action = "idle" /\ input = NoInput /\ invocation = 0
    /\ env_logged_in = FALSE /\ env_has_unwatch = FALSE
    /\ sessions = {}
    /\ HandlerStart
    /\ timeout \in 0..MaxTimeout
    /\ poll_interval \in 1..MaxPoll
    /\ clock = 0 /\ start_time = 0
    /\ first_check = TRUE
    /\ indicator \in BOOLEAN
    /\ entry_indicator = indicator
    /\ absent_throughout = ~indicator
    /\ events = <<>>
    /\ wl_pc = "call" /\ wl_ret = FALSE

\* start_time = time.time(); first_check = True
WaitEnter ==
    /\ wl_pc = "call"
    /\ start_time' = clock
    /\ first_check' = TRUE
    /\ wl_pc' = "loop"
    /\ UNCHANGED <<invVars, handlerVars, timeout, poll_interval, clock, indicator,
                   entry_indicator, absent_throughout, events, wl_ret>>

\* Variant: the loop gives up one poll interval early.
WaitLoopTest_Early ==
    /\ wl_pc = "loop"
    /\ IF clock - start_time + poll_interval < timeout
       THEN wl_pc' = "probe" /\ wl_ret' = wl_ret
       ELSE wl_pc' = "done" /\ wl_ret' = FALSE
    /\ UNCHANGED <<invVars, handlerVars, timeout, poll_interval, clock, start_time,
                   first_check, indicator, entry_indicator, absent_throughout, events>>

\* while time.time() - start_time < timeout; after the loop, return False
WaitLoopTest ==
    /\ wl_pc = "loop"
    /\ IF clock - start_time < timeout
       THEN wl_pc' = "probe" /\ wl_ret' = wl_ret
       ELSE wl_pc' = "done" /\ wl_ret' = FALSE
    /\ UNCHANGED <<invVars, handlerVars, timeout, poll_interval, clock, start_time,
                   first_check, indicator, entry_indicator, absent_throughout, events>>

\* if await is_logged_in(page): return True.  The probe waits for the
\* indicator for up to the probe timeout; any error makes it False.
WaitProbe ==
    /\ wl_pc = "probe"
    /\ \E d \in 0..ProbeTicks : clock' = clock + d
    /\ IF indicator
       THEN events' = Append(events, "probe_true") /\ wl_ret' = TRUE /\ wl_pc' = "done"
       ELSE events' = Append(events, "probe_false") /\ wl_ret' = wl_ret /\ wl_pc' = "prompt"
    /\ UNCHANGED <<invVars, handlerVars, timeout, poll_interval, start_time,
                   first_check, indicator, entry_indicator, absent_throughout>>

\* Variant: first_check is never cleared.
WaitPrompt_EveryTime ==
    /\ wl_pc = "prompt"
    /\ IF first_check
       THEN events' = Append(events, "prompt") /\ first_check' = first_check
       ELSE UNCHANGED <<events, first_check>>
    /\ wl_pc' = "sleep"
    /\ UNCHANGED <<invVars, handlerVars, timeout, poll_interval, clock, start_time,
                   indicator, entry_indicator, absent_throughout, wl_ret>>

\* if first_check: log("Go log in, please!"); first_check = False
WaitPrompt ==
    /\ wl_pc = "prompt"
    /\ IF first_check
       THEN events' = Append(events, "prompt") /\ first_check' = FALSE
       ELSE UNCHANGED <<events, first_check>>
    /\ wl_pc' = "sleep"
    /\ UNCHANGED <<invVars, handlerVars, timeout, poll_interval, clock, start_time,
                   indicator, entry_indicator, absent_throughout, wl_ret>>

\* time.sleep(poll_interval)
WaitSleep ==
    /\ wl_pc = "sleep"
    /\ clock' = clock + poll_interval
    /\ events' = Append(events, "sleep")
    /\ wl_pc' = "loop"
    /\ UNCHANGED <<invVars, handlerVars, timeout, poll_interval, start_time,
                   first_check, indicator, entry_indicator, absent_throughout, wl_ret>>

\* The user logs in through the live view while the poller runs.
UserLogsIn ==
    /\ wl_pc \in {"loop", "probe", "prompt", "sleep"}
    /\ ~indicator
    /\ indicator' = TRUE
    /\ absent_throughout' = FALSE
    /\ UNCHANGED <<invVars, handlerVars, timeout, poll_interval, clock, start_time,
                   first_check, entry_indicator, events, wl_pc, wl_ret>>

NextLogin ==
    \/ WaitEnter \/ WaitLoopTest \/ WaitProbe \/ WaitPrompt \/ WaitSleep \/ UserLogsIn

SpecLogin == InitLogin /\ [][NextLogin]_vars

Elapsed == clock - start_time
\* ================================================================= claims
\* The fields an action reads from its input, and what the code validates
\* each with.
Validated(a, f) ==
    CASE f = "url" -> cleanup_url(Get(input, "url", None))
      [] f = "query" -> cleanup_search_query(Get(input, "query", Str(<<>>)))
      [] f = "username" /\ a = "venmo_pay" -> cleanup_str(Get(input, "username", Str(<<>>)))
      [] f = "username" /\ a # "venmo_pay" -> cleanup_username(Get(input, "username", Str(<<>>)))
      [] OTHER -> cleanup_str(Get(input, f, Str(<<>>)))

FieldsOf(a) ==
    CASE a = "gh_provision" -> {"username"}
      [] a = "gh_unwatch" -> {"url", "username"}
      [] a = "venmo_pay" -> {"username", "amount", "note"}
      [] a = "google_search" -> {"query"}
      [] OTHER -> {}

FailsValidation == \E f \in FieldsOf(action) : ~Validated(action, f).ok

\* Missing, not a string, empty or whitespace-only.
Blank(v) == v.t # "str" \/ Strip(v.v) = <<>>

Acquired == browser # "none"

\* C1: once connect_over_cdp has returned the browser, browser.close is called
\* on every exit path of the action, whether it returns or raises.
C1_ClosedOnEveryExit ==
    (action \in Actions /\ pc = "done" /\ Acquired) => browser = "closed"

\* C2: when an input field fails validation the action ends with a raised
\* validation error and client.browsers.create has not been called.
C2_NoSessionForInvalidInput ==
    FailsValidation =>
        /\ ~kernel_browser.created
        /\ ~Acquired
        /\ pc \in {"start", "done"}
        /\ pc = "done" => result = Raised("ValueError")

C2_Witness ==
    /\ action = "venmo_pay" /\ pc = "done"
    /\ Validated(action, "username").ok /\ Validated(action, "amount").ok
    /\ ~Validated(action, "note").ok
    /\ result = Raised("ValueError")
    /\ sessions = {}

\* C3: in github unwatch and venmo pay-user the login poller runs after the
\* first navigation, and no click or fill is performed unless the poller has
\* returned true; a poller that returned false gives a success:false result.
C3_LoginBeforeInteraction ==
    action \in {"gh_unwatch", "venmo_pay"} =>
        /\ interactions # <<>> => (wl_pc = "done" /\ wl_ret)
        /\ (pc = "done" /\ page_url # <<>>) => wl_pc = "done"
        /\ (pc = "done" /\ wl_pc = "done" /\ ~wl_ret) =>
               (result.kind = "return" /\ ~result.success)

\* C4: pay-user with validated username u, amount a and note n: when the page
\* URL after the navigation is the profile URL of u and no click or fill
\* fails, the result is success with message "Paid u a for n", after the pay
\* click, the amount fill, the note fill, the submit click and the funding
\* click, in this order; when the page URL differs, the result is a returned
\* failure with a "not found or not logged in" message and nothing was
\* clicked or filled.
PayUsername == Strip(input.username.v)
PayAmount == Strip(input.amount.v)
PayNote == Strip(input.note.v)

PaySequence ==
    << <<"click", "profile_payRequestButton">>,
       <<"fill", "Amount">> \o PayAmount,
       <<"fill", "payment-note">> \o PayNote,
       <<"click", "pay_payRequestButton">>,
       <<"click", "fundingInstrumentFactory_buttonGroup">> >>

C4_PayUser ==
    (action = "venmo_pay" /\ pc = "done" /\ page_url # <<>>) =>
        /\ (page_url = ProfileUrl(PayUsername) /\ result.kind = "return") =>
              /\ result = Returned(TRUE, <<"Paid ">> \o PayUsername \o <<" ">> \o PayAmount
                                          \o <<" for ">> \o PayNote)
              /\ interactions = PaySequence
        /\ page_url # ProfileUrl(PayUsername) =>
              /\ result.kind = "return" /\ ~result.success
              /\ Contains(result.message, " not found or not logged in. Redirected to ")
              /\ interactions = <<>>

C4_Witness ==
    /\ action = "venmo_pay" /\ pc = "done"
    /\ input.username = Str(<<" ", "a">>)
    /\ page_url = ProfileUrl(<<"a">>)
    /\ result.kind = "return" /\ result.success
    /\ Len(interactions) = 5

\* C5: unwatch with valid inputs and a logged-in session returns success with
\* the "already unwatched" message and clicks nothing when the page has no
\* "Unwatch" element, and returns success with the "Unwatched repo" message
\* after the two clicks when it has one.
C5_Unwatch ==
    (action = "gh_unwatch" /\ pc = "done" /\ Acquired /\ env_logged_in) =>
        IF env_has_unwatch
        THEN result = Returned(TRUE, <<"Unwatched repo: ">> \o url)
        ELSE result = Returned(TRUE, <<"Repo already unwatched: ">> \o url)
             /\ interactions = <<>>

\* C6: every validator raises for an input that is missing, not a string,
\* empty or whitespace-only: an action whose validation has passed has no
\* such field.
C6_BlankRejected ==
    (action \in Actions /\ pc # "start" /\ result # Raised("ValueError")) =>
        \A f \in FieldsOf(action) : ~Blank(input[f])

\* C7: the persistence keys passed to client.browsers.create: for the github
\* actions one key per username, the same in every invocation, and different
\* usernames have different keys; for venmo and google search the key is the
\* site's constant.
C7_SessionKeys ==
    \A s \in sessions :
        /\ s.app = "venmo" => s.key = <<"venmo">>
        /\ s.app = "google" => s.key = <<"google">>
        /\ \A t \in sessions :
              (s.app = "github" /\ t.app = "github") =>
                  (s.identity = t.identity <=> s.key = t.key)

C7_Witness ==
    /\ invocation = 2 /\ pc = "done"
    /\ \E s \in sessions, t \in sessions :
          /\ s.app = "github" /\ t.app = "github"
          /\ s.identity # t.identity

\* C8: perform_search returns exactly the non-empty texts of the located
\* elements, in the DOM order of the elements, whatever order the concurrent
\* reads completed in.
NonEmptyText(t) == t.t = "str" /\ t.v # <<>>

C8_ResultsInDomOrder ==
    (action = "google_search" /\ result.kind = "return") =>
        /\ result.results = SelectSeq(elements, NonEmptyText)
        /\ Len(result.results) =
              Cardinality({i \in 1..Len(elements) : NonEmptyText(elements[i])})

C8_Witness ==
    /\ action = "google_search" /\ result.kind = "return"
    /\ completed = <<2, 1>>
    /\ Len(result.results) = 2
    /\ result.results[1] # result.results[2]

\* C9 as stated: with the indicator absent for the whole call, wait_for_login
\* returns false after at least timeout and at most timeout plus one poll
\* interval.
C9_Original ==
    (wl_pc = "done" /\ absent_throughout) =>
        /\ wl_ret = FALSE
        /\ Elapsed >= timeout
        /\ Elapsed <= timeout + poll_interval

\* C9 amended: with the indicator absent for the whole call, wait_for_login
\* returns false after at least timeout and at most timeout plus one poll
\* interval plus the time of one probe.
C9_TimeoutBounds ==
    (wl_pc = "done" /\ absent_throughout) =>
        /\ wl_ret = FALSE
        /\ Elapsed >= timeout
        /\ Elapsed <= timeout + poll_interval + ProbeTicks

C9_Witness ==
    /\ wl_pc = "done" /\ absent_throughout /\ ~wl_ret
    /\ timeout > 0
    /\ Elapsed > timeout + poll_interval

PromptOnlyAfterFirstFailedProbe ==
    /\ Cardinality({i \in 1..Len(events) : events[i] = "prompt"}) <= 1
    /\ \A i \in 1..Len(events) :
          events[i] = "prompt" => (i = 2 /\ events[1] = "probe_false")

====
